---- MODULE Spec2Model ----
(***************************************************************************)
(* Model of the PM100 power-meter controller (src/PM100.py).               *)
(*                                                                         *)
(* The controller object's attributes are the state.  An attribute that    *)
(* Python has not created yet is represented by a sentinel of the same     *)
(* type (Unset, NoHandle, NoConversion, NoCount); reading such an          *)
(* attribute is an AttributeError.  Every method is one action that        *)
(* models the whole call: the attributes it assigns, the interactions it   *)
(* has with the transport / driver adapter (recorded, in order, in         *)
(* call.trace), what it prints (call.logs) and how it ends (call.outcome,  *)
(* call.exc).  The transport and the device are external: whether an       *)
(* interaction with them fails, what a read returns and what the operator  *)
(* types at a prompt are inputs chosen with \E.                            *)
(***************************************************************************)
EXTENDS Integers, Sequences, FiniteSets, TLC

\* ---------------------------------------------------------------- bounds
MaxDevices == 2      \* most identifiers list_resources() returns
MaxHandles == 2      \* most sessions open_resource() hands out in one run
MaxAverages == 2     \* largest n_averages passed to measure

\* ------------------------------------------------------- program constants
OpenTimeout == 2500
DefaultSampleRate == 10

\* ---------------------------------------------------------------- inputs
ResourceNames == <<"USB0", "USB1", "USB2", "USB3">>
None == "<None>"
Unset == "<unset>"
NoHandle == 0
NoCount == -1
NoConversion == [neg |-> FALSE, m |-> <<0, 0>>, e |-> 0]
NoReply == "<EOF>"
OtherDevice == "GPIB9"
BadUnit == "kW"
SampleRates == {5, DefaultSampleRate}
UnitArgs == {None, "nW", "uW", "mW", "W", "dBm", BadUnit}
UnitReplies == {"mW", "dBm", BadUnit, NoReply}
BandwidthArgs == {"low", "high", "mid"}
MeasureTypes == {"single", "average", "peak"}

\* ------------------------------------------------------------------ state
VARIABLES
  devices,          \* self.devices: tuple of resource names found at construction
  verbose,          \* self.verbose
  unit,             \* self.unit
  device,           \* self.device (Unset until initialise assigns it)
  inst,             \* self.inst: index into handles (NoHandle until assigned)
  power_meter,      \* self.power_meter: index of the session the adapter wraps
  conversion,       \* self.conversion (NoConversion until assigned)
  unit_to_measure,  \* self.unit_to_measure (Unset until assigned)
  n_averages,       \* self.n_averages (NoCount until assigned)
  handles,          \* transport: every session open_resource returned, in order
  dev_unit,         \* device: the unit mode last written to sense.power.dc.unit
  writes_ok,        \* history: no device write of a set_units call has failed
  last_init,        \* history: how the last initialise call went (Unset: none yet)
  call              \* the most recent call: arguments, interactions, logs, result

vars == <<devices, verbose, unit, device, inst, power_meter, conversion,
          unit_to_measure, n_averages, handles, dev_unit, writes_ok,
          last_init, call>>

\* ------------------------------------------------------- float arithmetic
\* A Python float is an IEEE-754 double.  Its value is (-1)^neg * m * 2^e,
\* where the 53-bit significand m is kept in two limbs, m = m[1] * 2^26 + m[2].
Limb == 2 ^ 26
Double(neg, hi, lo, e) == [neg |-> neg, m |-> <<hi, lo>>, e |-> e]

\* the doubles that the literals 1E-9, 1E-6, 1E-3 and 1 denote
Lit_1Em9 == Double(FALSE, 72057594, 2545301, -82)
Lit_1Em6 == Double(FALSE, 70368744, 11922829, -72)
Lit_1Em3 == Double(FALSE, 68719476, 49392124, -62)
Lit_1 == Double(FALSE, 67108864, 0, -52)

\* arithmetic on two-limb naturals
Twice(x) == LET l == 2 * x[2] IN <<2 * x[1] + l \div Limb, l % Limb>>
Halved(x) == <<x[1] \div 2, (x[1] % 2) * (Limb \div 2) + x[2] \div 2>>
Succ(x) == IF x[2] + 1 = Limb THEN <<x[1] + 1, 0>> ELSE <<x[1], x[2] + 1>>
Geq(x, y) == x[1] > y[1] \/ (x[1] = y[1] /\ x[2] >= y[2])
Minus(x, y) ==
  IF x[2] >= y[2] THEN <<x[1] - y[1], x[2] - y[2]>>
  ELSE <<x[1] - y[1] - 1, x[2] + Limb - y[2]>>

\* one step of binary long division of st.r * 2^st.s by d: the next quotient
\* bit, unless the quotient st.q already has 54 significant bits (q >= 2^53)
DivStep(st, d) ==
  IF st.q[1] >= 2 * Limb THEN st
  ELSE LET r2 == Twice(st.r)
       IN IF Geq(r2, d)
          THEN [q |-> Succ(Twice(st.q)), r |-> Minus(r2, d), s |-> st.s + 1]
          ELSE [q |-> Twice(st.q), r |-> r2, s |-> st.s + 1]

DivSteps(st, d) ==
  DivStep(DivStep(DivStep(DivStep(DivStep(DivStep(DivStep(DivStep(st, d), d), d), d), d), d), d), d)

\* binary long division, for r < d: the 54-bit quotient q of r * 2^s by d and
\* the remainder
RECURSIVE LongDivision(_, _)
LongDivision(st, d) ==
  IF st.q[1] >= 2 * Limb THEN st ELSE LongDivision(DivSteps(st, d), d)

\* the double nearest to raw / c (round to nearest, ties to even), for an
\* integer-valued reading raw with |raw| < 2^31 and a normalised double c
FloatDiv(raw, c) ==
  IF raw = 0 THEN Double(c.neg, 0, 0, 0)
  ELSE
    LET a == IF raw < 0 THEN -raw ELSE raw
        d == LongDivision([q |-> <<0, 0>>, r |-> <<a \div Limb, a % Limb>>, s |-> 0],
                         c.m)
        kept == Halved(d.q)
        up == d.q[2] % 2 = 1 /\ (d.r # <<0, 0>> \/ kept[2] % 2 = 1)
        m == IF up THEN Succ(kept) ELSE kept
        neg == (raw < 0) # c.neg
    IN IF m[1] >= 2 * Limb THEN Double(neg, Limb, 0, 2 - d.s - c.e)
       ELSE Double(neg, m[1], m[2], 1 - d.s - c.e)

\* ----------------------------------------------------------------- tables
\* unit_types of set_units
unit_types ==
  [u \in {"nW", "uW", "mW", "W", "dBm"} |->
     CASE u = "nW" -> Lit_1Em9
       [] u = "uW" -> Lit_1Em6
       [] u = "mW" -> Lit_1Em3
       [] u = "W" -> Lit_1
       [] u = "dBm" -> Lit_1]

\* what the device may return for one read
RawValues == {-1, 1, 2}

\* raw / c for every reading and every factor the program divides by
Quotients ==
  [raw \in RawValues |->
     [c \in {Lit_1Em9, Lit_1Em6, Lit_1Em3, Lit_1} |-> FloatDiv(raw, c)]]

\* bandwidth of set_bandwidth
bandwidth == [s \in {"low", "high"} |-> IF s = "low" THEN 1 ELSE 0]

\* raw / self.conversion, a float division
Scaled(raw, c) == Quotients[raw][c]

\* ---------------------------------------------------------------- helpers
\* one interaction with the transport or the driver adapter
\* (t: what was called, k: the setting, s / n: the text / number passed or
\* returned, ok: whether it succeeded)
Ev(t, k, s, n, ok) == [t |-> t, k |-> k, s |-> s, n |-> n, ok |-> ok]

\* the record of one call
Call(op, s, rate, n, outcome, exc, logs, trace, ret) ==
  [op |-> op, s |-> s, rate |-> rate, n |-> n, outcome |-> outcome, exc |-> exc,
   logs |-> logs, trace |-> trace, ret |-> ret]

\* input(...): the operator is prompted once and types reply, or input raises
\* EOFError because standard input is at its end (reply = NoReply)
Prompt(reply) == Ev("input", "", IF reply = NoReply THEN "" ELSE reply, 0, reply # NoReply)

\* self.power_meter exists (otherwise reading it is an AttributeError)
HasAdapter == power_meter # NoHandle

\* an interaction through the adapter fails when the session it wraps has been
\* closed, or when the transport reports an error (fails)
DeviceFails(fails) == fails \/ ~handles[power_meter].open

\* (mutant: set_samples also wrapped in try/except)
Guarded_with_set_samples ==
  {"initialise", "close", "set_bandwidth", "set_units", "set_samples"}

\* the methods whose device access sits inside "try: ... except Exception"
Guarded == {"initialise", "close", "set_bandwidth", "set_units"}

\* "except Exception" catches every error but SystemExit
Exceptions == {"AttributeError:inst", "AttributeError:power_meter",
               "AttributeError:conversion", "AttributeError:n_averages",
               "KeyError", "DeviceError", "EOFError"}

\* what a guarded method does outside its try block: the prompt of set_units
BeforeTry == {<<"set_units", "EOFError">>}

Caught(op, exc) ==
  op \in Guarded /\ exc \in Exceptions /\ <<op, exc>> \notin BeforeTry

\* how a call in which exc occurred ends: it returns, it raises to the caller,
\* or the process exits
Outcome(op, exc) ==
  IF exc = "none" \/ Caught(op, exc) THEN "ok"
  ELSE IF exc = "SystemExit" THEN "exit"
  ELSE "raised"

\* one write of a setting through self.power_meter
DeviceWrite(k, s, n, fails) ==
  IF ~HasAdapter THEN [trace |-> <<>>, exc |-> "AttributeError:power_meter"]
  ELSE IF DeviceFails(fails) THEN
    [trace |-> <<Ev("write", k, s, n, FALSE)>>, exc |-> "DeviceError"]
  ELSE [trace |-> <<Ev("write", k, s, n, TRUE)>>, exc |-> "none"]

\* sys.exit ended the process: no later call happens
Alive == call.outcome # "exit"

Init ==
  /\ \E k \in 0..MaxDevices : devices = SubSeq(ResourceNames, 1, k)
  /\ verbose \in BOOLEAN
  /\ unit = "W"
  /\ device = Unset
  /\ inst = NoHandle
  /\ power_meter = NoHandle
  /\ conversion = NoConversion
  /\ unit_to_measure = Unset
  /\ n_averages = NoCount
  /\ handles = <<>>
  /\ dev_unit = Unset
  /\ writes_ok = TRUE
  /\ last_init = Unset
  /\ call = Call("__init__", None, 0, 0, "ok", "none", <<>>, <<>>, <<>>)

\* ------------------------------------------------------------- initialise
\* (mutant: any non-empty list selects its first entry, without a prompt)
SelectDevice_first(dev, reply) ==
  IF dev # None THEN [device |-> dev, prompts |-> 0, exit |-> FALSE]
  ELSE IF Len(devices) >= 1 THEN [device |-> devices[1], prompts |-> 0, exit |-> FALSE]
  ELSE [device |-> device, prompts |-> 0, exit |-> TRUE]

\* lines 51-63: which identifier initialise selects, whether it prompts, and
\* whether it ends in sys.exit
SelectDevice(dev, reply) ==
  IF dev # None THEN [device |-> dev, prompts |-> 0, exit |-> FALSE]
  ELSE IF Len(devices) = 1 THEN [device |-> devices[1], prompts |-> 0, exit |-> FALSE]
  ELSE IF Len(devices) > 1 THEN [device |-> reply, prompts |-> 1, exit |-> FALSE]
  ELSE [device |-> device, prompts |-> 0, exit |-> TRUE]

initialise(dev, reply, open_fails, wrap_fails) ==
  LET sel == SelectDevice(dev, reply)
      found == IF sel.prompts > 0 THEN <<"found_devices">> ELSE <<>>
      asked == IF sel.prompts > 0 THEN <<Prompt(reply)>> ELSE <<>>
      no_reply == sel.prompts > 0 /\ reply = NoReply
      opened == asked \o
                <<Ev("open_resource", "timeout", sel.device, OpenTimeout, ~open_fails)>>
  IN
  /\ Alive
  /\ open_fails \/ sel.exit \/ no_reply \/ Len(handles) < MaxHandles
  /\ IF sel.exit THEN
       /\ call' = Call("initialise", dev, 0, 0, Outcome("initialise", "SystemExit"),
                       "SystemExit",
                       IF Caught("initialise", "SystemExit")
                         THEN <<"unsuccessful">> ELSE <<>>,
                       <<>>, <<>>)
       /\ UNCHANGED <<device, inst, power_meter, handles>>
     ELSE IF no_reply THEN
       /\ call' = Call("initialise", dev, 0, 0, Outcome("initialise", "EOFError"),
                       "EOFError", found \o <<"unsuccessful">>, asked, <<>>)
       /\ UNCHANGED <<device, inst, power_meter, handles>>
     ELSE IF open_fails THEN
       /\ device' = sel.device
       /\ call' = Call("initialise", dev, 0, 0, Outcome("initialise", "DeviceError"),
                       "DeviceError", found \o <<"unsuccessful">>, opened, <<>>)
       /\ UNCHANGED <<inst, power_meter, handles>>
     ELSE
       /\ device' = sel.device
       /\ handles' = Append(handles, [name |-> sel.device, open |-> TRUE])
       /\ inst' = Len(handles) + 1
       /\ IF wrap_fails THEN
            /\ call' = Call("initialise", dev, 0, 0,
                            Outcome("initialise", "DeviceError"), "DeviceError",
                            found \o <<"unsuccessful">>, opened, <<>>)
            /\ UNCHANGED power_meter
          ELSE
            /\ power_meter' = Len(handles) + 1
            /\ call' = Call("initialise", dev, 0, 0, "ok", "none",
                            found \o (IF verbose THEN <<"connected">> ELSE <<>>),
                            opened, <<>>)
  /\ last_init' = IF sel.exit THEN last_init
                  ELSE IF no_reply \/ open_fails \/ wrap_fails THEN "failed" ELSE "ok"
  /\ UNCHANGED <<devices, verbose, unit, conversion, unit_to_measure, n_averages,
                 dev_unit, writes_ok>>

\* ------------------------------------------------------------------ close
\* the close event records, in s, whether the session was still open when
\* inst.close() was called on it
close(fails) ==
  LET was == IF inst # NoHandle /\ handles[inst].open THEN "open" ELSE "released"
  IN
  /\ Alive
  /\ IF inst = NoHandle THEN
       /\ call' = Call("close", None, 0, 0, Outcome("close", "AttributeError:inst"),
                       "AttributeError:inst", <<"no_device">>, <<>>, <<>>)
       /\ UNCHANGED handles
     ELSE IF fails THEN
       /\ call' = Call("close", None, 0, 0, Outcome("close", "DeviceError"),
                       "DeviceError", <<"no_device">>,
                       <<Ev("close", "", was, inst, FALSE)>>, <<>>)
       /\ UNCHANGED handles
     ELSE
       /\ handles' = [handles EXCEPT ![inst].open = FALSE]
       /\ call' = Call("close", None, 0, 0, "ok", "none",
                       IF verbose THEN <<"ended">> ELSE <<>>,
                       <<Ev("close", "", was, inst, TRUE)>>, <<>>)
  /\ UNCHANGED <<devices, verbose, unit, device, inst, power_meter, conversion,
                 unit_to_measure, n_averages, dev_unit, writes_ok, last_init>>

\* -------------------------------------------------------------- set_units
\* lines 203-206: the device's unit mode for a unit symbol
NativeMode(u) == IF u = "dBm" THEN "DBM" ELSE "W"

\* lines 191-201: self.unit when the try block is reached: the argument if
\* truthy, else self.unit; if that is not in unit_types, whatever the operator
\* types at the one prompt.  If input raises, self.unit keeps the value that
\* was not in unit_types and the call ends there (raised).
UnitInEffect(unit_arg, reply) ==
  LET u1 == IF unit_arg # None THEN unit_arg ELSE unit
  IN IF u1 \in DOMAIN unit_types THEN [unit |-> u1, prompts |-> 0, raised |-> FALSE]
     ELSE IF reply = NoReply THEN [unit |-> u1, prompts |-> 1, raised |-> TRUE]
     ELSE [unit |-> reply, prompts |-> 1, raised |-> FALSE]

set_units(unit_arg, reply, fails) ==
  LET eff == UnitInEffect(unit_arg, reply)
      asked == IF eff.prompts > 0 THEN <<Prompt(reply)>> ELSE <<>>
      mode == NativeMode(eff.unit)
      w == DeviceWrite("unit", mode, 0, fails)
      exc == IF w.exc # "none" THEN w.exc
             ELSE IF eff.unit \notin DOMAIN unit_types THEN "KeyError"
             ELSE "none"
  IN
  /\ Alive
  /\ unit' = eff.unit
  /\ IF eff.raised THEN
       /\ call' = Call("set_units", unit_arg, 0, 0, Outcome("set_units", "EOFError"),
                       "EOFError", <<>>, asked, <<>>)
       /\ UNCHANGED <<unit_to_measure, dev_unit, conversion, writes_ok>>
     ELSE
       /\ unit_to_measure' = mode
       /\ dev_unit' = IF w.exc = "none" THEN mode ELSE dev_unit
       /\ conversion' = IF exc = "none" THEN unit_types[eff.unit] ELSE conversion
       /\ writes_ok' = (writes_ok /\ w.exc = "none")
       /\ call' = Call("set_units", unit_arg, 0, 0, Outcome("set_units", exc), exc,
                       IF exc # "none" THEN <<"unit_error">>
                       ELSE IF verbose THEN <<"units_set">> ELSE <<>>,
                       asked \o w.trace, <<>>)
  /\ UNCHANGED <<devices, verbose, device, inst, power_meter, n_averages, handles,
                 last_init>>

\* ---------------------------------------------------------- set_bandwidth
set_bandwidth(state, fails) ==
  /\ Alive
  /\ IF state \notin DOMAIN bandwidth THEN
       call' = Call("set_bandwidth", state, 0, 0, "ok", "none",
                    <<"invalid_state">>, <<>>, <<>>)
     ELSE
       LET w == DeviceWrite("lpass.state", "", bandwidth[state], fails)
       IN call' = Call("set_bandwidth", state, 0, 0, Outcome("set_bandwidth", w.exc),
                       w.exc,
                       IF w.exc = "none" THEN <<"bandwidth_set">>
                       ELSE <<"bandwidth_error">>,
                       w.trace, <<>>)
  /\ UNCHANGED <<devices, verbose, unit, device, inst, power_meter, conversion,
                 unit_to_measure, n_averages, handles, dev_unit, writes_ok, last_init>>

\* ------------------------------------ set_samples, set_wavelength, auto_range
set_samples(n_samples, fails) ==
  LET w == DeviceWrite("average.count", "", n_samples, fails)
  IN
  /\ Alive
  /\ call' = Call("set_samples", None, n_samples, 0, Outcome("set_samples", w.exc),
                  w.exc, <<>>, w.trace, <<>>)
  /\ UNCHANGED <<devices, verbose, unit, device, inst, power_meter, conversion,
                 unit_to_measure, n_averages, handles, dev_unit, writes_ok, last_init>>

set_wavelength(wavelength, fails) ==
  LET w == DeviceWrite("wavelength", "", wavelength, fails)
  IN
  /\ Alive
  /\ call' = Call("set_wavelength", None, 0, wavelength,
                  Outcome("set_wavelength", w.exc), w.exc, <<>>, w.trace, <<>>)
  /\ UNCHANGED <<devices, verbose, unit, device, inst, power_meter, conversion,
                 unit_to_measure, n_averages, handles, dev_unit, writes_ok, last_init>>

auto_range(state, fails) ==
  LET w == DeviceWrite("range.auto", IF state THEN "ON" ELSE "OFF", 0, fails)
  IN
  /\ Alive
  /\ call' = Call("auto_range", IF state THEN "True" ELSE "False", 0, 0,
                  Outcome("auto_range", w.exc), w.exc,
                  IF w.exc # "none" THEN <<>>
                  ELSE IF state THEN <<"auto_range_on">> ELSE <<"auto_range_off">>,
                  w.trace, <<>>)
  /\ UNCHANGED <<devices, verbose, unit, device, inst, power_meter, conversion,
                 unit_to_measure, n_averages, handles, dev_unit, writes_ok, last_init>>

\* ---------------------------------------------------------- get_max_power
get_max_power(upper, fails) ==
  LET exc == IF ~HasAdapter THEN "AttributeError:power_meter"
             ELSE IF DeviceFails(fails) THEN "DeviceError" ELSE "none"
  IN
  /\ Alive
  /\ call' = Call("get_max_power", None, 0, 0, Outcome("get_max_power", exc), exc,
                  <<>>,
                  IF ~HasAdapter THEN <<>>
                  ELSE <<Ev("query", "range.upper", "", IF exc = "none" THEN upper ELSE 0,
                            exc = "none")>>,
                  IF exc = "none" THEN <<upper>> ELSE <<>>)
  /\ UNCHANGED <<devices, verbose, unit, device, inst, power_meter, conversion,
                 unit_to_measure, n_averages, handles, dev_unit, writes_ok, last_init>>

\* ---------------------------------------------------------------- average
\* "self.power_meter.read/self.conversion", count times in a row: read k fails
\* when bad = k; the division reads self.conversion after the read returned
ReadSamples(count, bad, raws) ==
  LET first_bad == IF HasAdapter /\ DeviceFails(FALSE) THEN 1
                   ELSE IF bad \in 1..count THEN bad ELSE 0
      good(k) == [i \in 1..k |-> Ev("read", "", "", raws[i], TRUE)]
      failed == <<Ev("read", "", "", 0, FALSE)>>
  IN
  IF count <= 0 THEN [trace |-> <<>>, ret |-> <<>>, exc |-> "none"]
  ELSE IF ~HasAdapter THEN
    [trace |-> <<>>, ret |-> <<>>, exc |-> "AttributeError:power_meter"]
  ELSE IF first_bad = 1 THEN [trace |-> failed, ret |-> <<>>, exc |-> "DeviceError"]
  ELSE IF conversion = NoConversion THEN
    [trace |-> good(1), ret |-> <<>>, exc |-> "AttributeError:conversion"]
  ELSE IF first_bad > 1 THEN
    [trace |-> good(first_bad - 1) \o failed, ret |-> <<>>, exc |-> "DeviceError"]
  ELSE [trace |-> good(count),
        ret |-> [i \in 1..count |-> Scaled(raws[i], conversion)],
        exc |-> "none"]

\* the body of average() for a given self.n_averages
AverageBody(count, bad, raws) ==
  LET r == ReadSamples(count, bad, raws)
  IN [trace |-> r.trace, ret |-> r.ret, exc |-> r.exc,
      logs |-> IF r.exc = "none" /\ verbose
               THEN <<"average_value", "standard_deviation">> ELSE <<>>]

average(bad, raws) ==
  LET r == IF n_averages = NoCount
           THEN [trace |-> <<>>, ret |-> <<>>, exc |-> "AttributeError:n_averages",
                 logs |-> <<>>]
           ELSE AverageBody(n_averages, bad, raws)
  IN
  /\ Alive
  /\ call' = Call("average", None, 0, n_averages, Outcome("average", r.exc), r.exc,
                  r.logs, r.trace, r.ret)
  /\ UNCHANGED <<devices, verbose, unit, device, inst, power_meter, conversion,
                 unit_to_measure, n_averages, handles, dev_unit, writes_ok, last_init>>

\* ---------------------------------------------------------------- measure
\* (mutant: every type takes n reads)
ReadsWanted_always_n(type, n) == n

\* lines 142-146: how many raw reads the requested type takes
ReadsWanted(type, n) == IF type = "average" THEN n ELSE 1

\* f = 1: the set_samples write fails; f = 2: configure fails; f = 2 + k: read k
\* fails; f = 0: the transport reports no error
measure(type, sample_rate, n, f, raws) ==
  LET w == DeviceWrite("average.count", "", sample_rate, f = 1)
      conf == Ev("configure", "scalar.power", "", 0, f # 2)
      bad == IF f > 2 THEN f - 2 ELSE 0
      r == IF type = "average" THEN AverageBody(ReadsWanted(type, n), bad, raws)
           ELSE LET one == ReadSamples(ReadsWanted(type, n), bad, raws)
                IN [trace |-> one.trace, ret |-> one.ret, exc |-> one.exc,
                    logs |-> IF one.exc = "none" THEN <<"power_reading">> ELSE <<>>]
  IN
  /\ Alive
  /\ IF w.exc # "none" THEN
       /\ call' = Call("measure", type, sample_rate, n, Outcome("measure", w.exc),
                       w.exc, <<>>, w.trace, <<>>)
       /\ UNCHANGED n_averages
     ELSE IF f = 2 THEN
       /\ n_averages' = n
       /\ call' = Call("measure", type, sample_rate, n,
                       Outcome("measure", "DeviceError"), "DeviceError", <<>>,
                       w.trace \o <<conf>>, <<>>)
     ELSE
       /\ n_averages' = n
       /\ call' = Call("measure", type, sample_rate, n, Outcome("measure", r.exc),
                       r.exc, r.logs, w.trace \o <<conf>> \o r.trace, r.ret)
  /\ UNCHANGED <<devices, verbose, unit, device, inst, power_meter, conversion,
                 unit_to_measure, handles, dev_unit, writes_ok, last_init>>

\* ------------------------------------------------------------ specification
DeviceArgs == {None, ResourceNames[1], OtherDevice}
DeviceReplies == {ResourceNames[2], OtherDevice, NoReply}
Wavelengths == {606}
UpperRanges == {2}
\* what the device returns for the reads of one call (values of RawValues):
\* alternating, or constant
RawSeqs == {[i \in 1..MaxAverages |-> IF i % 2 = 1 THEN 2 ELSE -1],
            [i \in 1..MaxAverages |-> 1]}

\* every method, every input
Next ==
  \/ \E dev \in DeviceArgs, reply \in DeviceReplies, open_fails, wrap_fails \in BOOLEAN :
       initialise(dev, reply, open_fails, wrap_fails)
  \/ \E fails \in BOOLEAN : close(fails)
  \/ \E unit_arg \in UnitArgs, reply \in UnitReplies, fails \in BOOLEAN :
       set_units(unit_arg, reply, fails)
  \/ \E state \in BandwidthArgs, fails \in BOOLEAN : set_bandwidth(state, fails)
  \/ \E n_samples \in SampleRates, fails \in BOOLEAN : set_samples(n_samples, fails)
  \/ \E wavelength \in Wavelengths, fails \in BOOLEAN : set_wavelength(wavelength, fails)
  \/ \E state \in BOOLEAN, fails \in BOOLEAN : auto_range(state, fails)
  \/ \E upper \in UpperRanges, fails \in BOOLEAN : get_max_power(upper, fails)
  \/ \E bad \in 0..MaxAverages, raws \in RawSeqs : average(bad, raws)
  \/ \E type \in MeasureTypes, sample_rate \in SampleRates, n \in 0..MaxAverages,
        f \in 0..(2 + MaxAverages), raws \in RawSeqs :
       measure(type, sample_rate, n, f, raws)

Spec == Init /\ [][Next]_vars

\* The connection life cycle: any construction, any sequence of initialise and
\* close with every input.
NextConnection ==
  \/ \E dev \in DeviceArgs, reply \in DeviceReplies, open_fails, wrap_fails \in BOOLEAN :
       initialise(dev, reply, open_fails, wrap_fails)
  \/ \E fails \in BOOLEAN : close(fails)

SpecConnection == Init /\ [][NextConnection]_vars

\* One device is found at construction, so that initialise() selects it.
InitOne == Init /\ devices = <<ResourceNames[1]>>

\* Units and readings: every set_units input; initialise() and close() make the
\* adapter absent, usable or closed; measure fails at its first read or not at
\* all.
NextUnits ==
  \/ initialise(None, OtherDevice, FALSE, FALSE)
  \/ close(FALSE)
  \/ \E unit_arg \in UnitArgs, reply \in UnitReplies, fails \in BOOLEAN :
       set_units(unit_arg, reply, fails)
  \/ \E type \in {"single", "average"}, n \in 0..MaxAverages, f \in {0, 3},
        raws \in RawSeqs :
       measure(type, DefaultSampleRate, n, f, raws)
  \/ \E raws \in RawSeqs : average(0, raws)

SpecUnits == InitOne /\ [][NextUnits]_vars

\* Measurements and failures: every method with every failure point; set_units
\* only selects "mW".
NextMeasure ==
  \/ initialise(None, OtherDevice, FALSE, FALSE)
  \/ \E fails \in BOOLEAN : close(fails)
  \/ \E fails \in BOOLEAN : set_units("mW", "mW", fails)
  \/ \E state \in BandwidthArgs, fails \in BOOLEAN : set_bandwidth(state, fails)
  \/ \E n_samples \in SampleRates, fails \in BOOLEAN : set_samples(n_samples, fails)
  \/ \E wavelength \in Wavelengths, fails \in BOOLEAN : set_wavelength(wavelength, fails)
  \/ \E state \in BOOLEAN, fails \in BOOLEAN : auto_range(state, fails)
  \/ \E upper \in UpperRanges, fails \in BOOLEAN : get_max_power(upper, fails)
  \/ \E bad \in 0..MaxAverages, raws \in RawSeqs : average(bad, raws)
  \/ \E type \in MeasureTypes, sample_rate \in SampleRates, n \in 0..MaxAverages,
        f \in 0..(2 + MaxAverages), raws \in RawSeqs :
       measure(type, sample_rate, n, f, raws)

SpecMeasure == InitOne /\ [][NextMeasure]_vars

\* ------------------------------------------------------------- properties
Reads(c) == SelectSeq(c.trace, LAMBDA e : e.t = "read" /\ e.ok)
Writes(c) == SelectSeq(c.trace, LAMBDA e : e.t = "write")
Inputs(c) == SelectSeq(c.trace, LAMBDA e : e.t = "input")
Opens(c) == SelectSeq(c.trace, LAMBDA e : e.t = "open_resource")
OpenSessions == {i \in DOMAIN handles : handles[i].open}
AdapterFailure == {"AttributeError:power_meter", "DeviceError"}

\* the scale factors as the specification states them: nW = 1e-9, uW = 1e-6,
\* mW = 1e-3, W = 1, dBm = 1
StatedScale ==
  [u \in {"nW", "uW", "mW", "W", "dBm"} |->
     CASE u = "nW" -> Lit_1Em9
       [] u = "uW" -> Lit_1Em6
       [] u = "mW" -> Lit_1Em3
       [] u = "W" -> Lit_1
       [] u = "dBm" -> Lit_1]

\* C1: once set_units has been called, conversion and unit_to_measure are the
\* ones the table assigns to the current unit, and no measure or average call
\* reads conversion before it has been set.
C1_DerivedStateConsistent ==
  /\ (unit_to_measure # Unset \/ conversion # NoConversion) =>
       /\ unit \in DOMAIN StatedScale
       /\ conversion = StatedScale[unit]
       /\ unit_to_measure = (IF unit = "dBm" THEN "DBM" ELSE "W")
  /\ call.exc # "AttributeError:conversion"

\* C2: a failed initialise returns without raising and leaves the controller
\* with neither an open session in inst nor an adapter on an open session.
C2_FailedInitialiseLeavesNoHandle ==
  (call.op = "initialise" /\ call.exc = "DeviceError") =>
    /\ call.outcome = "ok"
    /\ ~(inst # NoHandle /\ handles[inst].open)
    /\ ~(HasAdapter /\ handles[power_meter].open)

\* C3: close never raises, and a close that follows an absent or failed
\* initialise logs 'No device connected!' and not 'Connection ... ended'.
C3_CloseNeverRaises ==
  call.op = "close" =>
    /\ call.outcome = "ok"
    /\ last_init \in {Unset, "failed"} => call.logs = <<"no_device">>

\* C4: initialise() without a device argument: no device found ends in a fatal
\* exit that is not swallowed, with no open_resource call; one device found is
\* opened with timeout 2500 and no prompt; several found prompt exactly once,
\* before anything else, and what is opened is the string that was entered
\* (nothing is opened if the prompt raised instead of returning a string).
C4_DeviceSelection ==
  (call.op = "initialise" /\ call.s = None) =>
    /\ Len(devices) = 0 =>
         /\ call.outcome = "exit"
         /\ call.logs = <<>>
         /\ call.trace = <<>>
    /\ Len(devices) = 1 =>
         /\ call.outcome = "ok"
         /\ Len(call.trace) = 1
         /\ call.trace[1].t = "open_resource"
         /\ call.trace[1].s = devices[1]
         /\ call.trace[1].n = 2500
    /\ Len(devices) > 1 =>
         /\ call.outcome = "ok"
         /\ Len(Inputs(call)) = 1
         /\ call.trace[1].t = "input"
         /\ Len(call.trace) = (IF call.trace[1].ok THEN 2 ELSE 1)
         /\ call.trace[1].ok =>
              /\ call.trace[2].t = "open_resource"
              /\ call.trace[2].s = call.trace[1].s
              /\ call.trace[2].n = 2500
              /\ call.trace[2].ok => handles[inst].name = call.trace[1].s

C4_Witness ==
  /\ call.op = "initialise" /\ call.s = None
  /\ Len(devices) > 1
  /\ Len(Inputs(call)) = 1
  /\ Len(Opens(call)) = 1 /\ Opens(call)[1].ok
  /\ handles[inst].name = OtherDevice

\* C5: a measure call that completes wrote the sample count first, then
\* configured scalar power, then read: once unless type is 'average', and
\* n_averages times, returning that many values, if it is; in no measure call,
\* completed or not, does a read come before the sample-count write.
C5_MeasureOrder ==
  call.op = "measure" =>
    LET t == call.trace
        wanted == IF call.s = "average" THEN call.n ELSE 1
    IN
    /\ call.outcome = "ok" =>
         /\ Len(t) = 2 + wanted
         /\ t[1] = Ev("write", "average.count", "", call.rate, TRUE)
         /\ t[2].t = "configure" /\ t[2].ok
         /\ \A i \in 3..Len(t) : t[i].t = "read" /\ t[i].ok
         /\ Len(call.ret) = wanted
    /\ \A i \in 1..Len(t) :
         t[i].t = "read" =>
           i > 1 /\ t[1].t = "write" /\ t[1].k = "average.count" /\ t[1].ok

C5_Witness ==
  /\ call.op = "measure" /\ call.s = "average" /\ call.outcome = "ok"
  /\ call.n = MaxAverages
  /\ Len(Reads(call)) = MaxAverages
  /\ Len(call.ret) = MaxAverages

\* C6: once set_units has been called, every value measure or average
\* returns is the raw reading divided by the scale of the current (most
\* recently requested) unit.
C6_ScaleOfRequestedUnit ==
  (/\ call.op \in {"measure", "average"} /\ call.outcome = "ok"
   /\ unit_to_measure # Unset /\ unit \in DOMAIN StatedScale) =>
    /\ Len(call.ret) = Len(Reads(call))
    /\ \A i \in 1..Len(call.ret) :
         call.ret[i] = Scaled(Reads(call)[i].n, StatedScale[unit])

\* C7: a set_units call whose device write fails logs the error, does not
\* raise, and leaves conversion and unit_to_measure as they were.
C7_FailedWriteKeepsState ==
  [][(/\ call'.op = "set_units"
      /\ call'.exc \in AdapterFailure
      /\ unit_to_measure # Unset) =>
       /\ call'.outcome = "ok"
       /\ call'.logs = <<"unit_error">>
       /\ conversion' = conversion
       /\ unit_to_measure' = unit_to_measure]_vars

\* C8: every set_units call makes exactly one unit-mode write to the device:
\* DBM if the unit in effect is 'dBm', W otherwise; and as long as no device
\* write of a set_units call has failed, the mode last written to the device
\* is DBM exactly when the current unit is 'dBm'.
C8_NativeModeWritten ==
  /\ call.op = "set_units" =>
       /\ Len(Writes(call)) = 1
       /\ Writes(call)[1].k = "unit"
       /\ Writes(call)[1].s \in {"DBM", "W"}
       /\ Writes(call)[1].s = "DBM" <=> unit = "dBm"
       /\ Writes(call)[1].ok => dev_unit = Writes(call)[1].s
  /\ writes_ok => (dev_unit = "DBM" <=> unit = "dBm")

\* C9: a failing adapter access is caught and logged in set_units,
\* set_bandwidth and close, which return; it is raised to the caller by
\* set_wavelength, set_samples, auto_range, get_max_power, average and
\* measure; measure raises at a failed sample-count write, before any
\* configure or read.
C9_ErrorPropagation ==
  /\ (/\ call.op \in {"set_units", "set_bandwidth", "close"}
      /\ call.exc \in AdapterFailure \cup {"AttributeError:inst"}) =>
       /\ call.outcome = "ok"
       /\ call.logs \in {<<"unit_error">>, <<"bandwidth_error">>, <<"no_device">>}
  /\ (/\ call.op \in {"set_wavelength", "set_samples", "auto_range",
                      "get_max_power", "average", "measure"}
      /\ call.exc \in AdapterFailure) =>
       /\ call.outcome = "raised"
       /\ call.logs = <<>>
       /\ call.ret = <<>>
  /\ (call.op = "measure" /\ (call.trace = <<>> \/ ~call.trace[1].ok)) =>
       /\ call.outcome = "raised"
       /\ Len(call.trace) <= 1
       /\ \A i \in 1..Len(call.trace) : call.trace[i].t = "write"

C9_Witness ==
  /\ call.op = "measure"
  /\ call.exc = "DeviceError"
  /\ call.outcome = "raised"
  /\ handles[power_meter].open
  /\ Len(call.trace) = 1
  /\ ~call.trace[1].ok

\* C10: at most one session is open and not released, every open session is
\* the one inst refers to, and close never calls release on a session that
\* was already released.
C10_HandlesReleasedOnce ==
  /\ Cardinality(OpenSessions) <= 1
  /\ \A i \in OpenSessions : inst = i
  /\ (call.op = "close" /\ call.trace # <<>>) => call.trace[1].s = "open"

====
